---- MODULE Spec2Model ----
(***************************************************************************)
(* A model of merge_candidates.py: the record normalizer, the page loader, *)
(* the line reconstructor, the script classifier, the candidate segmenter  *)
(* and the writer.                                                          *)
(*                                                                          *)
(* Conventions.                                                             *)
(*  - A text is a sequence of Unicode code points (ord(ch) of each char).   *)
(*  - Python's None for an optional integer is the empty sequence << >>,    *)
(*    and a present integer v is << v >>.                                   *)
(*  - A Python float that is a quotient of two integers is kept as the      *)
(*    pair of integers; comparisons are cross-multiplied.                   *)
(*  - A local variable of the code that is read several times is the       *)
(*    parameter of a helper operator (TLC then evaluates it once).         *)
(***************************************************************************)
EXTENDS Integers, Sequences, FiniteSets, TLC

VARIABLES
    lg_text,        \* guess_lang: the argument
    lg_out,         \* guess_lang: the returned tag, "" before the call
    nr_obj,         \* normalize_row: the raw record
    nr_out,         \* normalize_row: the outcome (a token or an exception)
    page_words,     \* group_words_to_lines: the page's tokens
    ln_pc,          \* group_words_to_lines: position in the function
    ln_sorted,      \* group_words_to_lines: page_words_sorted
    ln_k,           \* group_words_to_lines: index of the next token of the loop
    groups,         \* group_words_to_lines: the open line groups
    ln_last,        \* history: what the last loop iteration did, and to which group
    ln_lines,       \* group_words_to_lines: the returned lines
    sg_lines,       \* group_lines_to_candidates: the argument
    i,              \* group_lines_to_candidates: the loop index
    candidates,     \* group_lines_to_candidates: the candidates so far
    sg_pc,          \* group_lines_to_candidates: "loop" or "done"
    m_pc,           \* main: position in the function
    m_input,        \* main: the input file (its lines), or absent
    m_outOk,        \* main: whether the output path can be opened for writing
    m_all,          \* main: all_candidates
    m_file,         \* main: the output file's state and content
    m_written       \* main: number of candidates written so far

lgVars == <<lg_text, lg_out>>
nrVars == <<nr_obj, nr_out>>
lnVars == <<page_words, ln_pc, ln_sorted, ln_k, groups, ln_last, ln_lines>>
sgVars == <<sg_lines, i, candidates, sg_pc>>
mVars  == <<m_pc, m_input, m_outOk, m_all, m_file, m_written>>
vars   == <<lgVars, nrVars, lnVars, sgVars, mVars>>

----------------------------------------------------------------------------
(* Each function is checked on its own: under its specification the        *)
(* variables of the other functions keep these values.                     *)

LangIdle == lg_text = <<>> /\ lg_out = "idle"

LinesIdle ==
    /\ page_words = <<>> /\ ln_pc = "idle" /\ ln_sorted = <<>> /\ ln_k = 0
    /\ groups = <<>> /\ ln_last = [kind |-> "idle", g |-> 0] /\ ln_lines = <<>>

NormIdle == nr_obj = <<>> /\ nr_out = <<>>

MainIdle ==
    /\ m_pc = "idle" /\ m_input = <<>> /\ m_outOk = FALSE /\ m_all = <<>>
    /\ m_file = <<>> /\ m_written = 0

SegIdle == sg_lines = <<>> /\ i = 0 /\ candidates = <<>> /\ sg_pc = "idle"

----------------------------------------------------------------------------
(* Small arithmetic and sequence helpers (Python built-ins).                *)

Abs(x) == IF x < 0 THEN -x ELSE x

Min2(a, b) == IF a <= b THEN a ELSE b

\* int(a / b) for integers a and b > 0: the quotient truncated toward zero.
PyIntDiv(a, b) == IF a >= 0 THEN a \div b ELSE -((-a) \div b)

\* math.floor(a / b) for integers a and b > 0.
FloorDiv(a, b) == a \div b

RECURSIVE SumSeq(_)
SumSeq(s) == IF s = <<>> THEN 0 ELSE Head(s) + SumSeq(Tail(s))

RECURSIVE Concat(_)
Concat(ss) == IF ss = <<>> THEN <<>> ELSE Head(ss) \o Concat(Tail(ss))

RangeOf(s) == {s[k] : k \in 1..Len(s)}

\* Lexicographic order on equally long tuples of integers (Python's order
\* on tuples of ints).
RECURSIVE TupleLess(_, _)
TupleLess(a, b) ==
    IF a = <<>> THEN FALSE
    ELSE IF Head(a) # Head(b) THEN Head(a) < Head(b)
    ELSE TupleLess(Tail(a), Tail(b))

\* Where index x goes in the index list s, which is sorted by keys: after
\* every index whose key is not greater (the sort is stable).
RECURSIVE InsertIdx(_, _, _)
InsertIdx(x, s, keys) ==
    IF s = <<>> THEN <<x>>
    ELSE IF TupleLess(keys[x], keys[Head(s)]) THEN <<x>> \o s
    ELSE <<Head(s)>> \o InsertIdx(x, Tail(s), keys)

RECURSIVE SortIdx(_, _)
SortIdx(n, keys) ==
    IF n = 0 THEN <<>> ELSE InsertIdx(n, SortIdx(n - 1, keys), keys)

\* sorted(s, key=...) where keys[k] is the key of s[k], a tuple of integers:
\* Python's sort is stable.
Sorted(s, keys) ==
    LET perm == SortIdx(Len(s), keys)
    IN [k \in 1..Len(s) |-> s[perm[k]]]

----------------------------------------------------------------------------
(* Characters.  Only ASCII and the Devanagari block occur in the model's   *)
(* texts; the predicates below are Python's on those code points.          *)

DevanagariLo == 2304       \* DEVANAGARI_RANGE[0] = 0x0900
DevanagariHi == 2431       \* DEVANAGARI_RANGE[1] = 0x097F

is_devanagari_char(ch) == DevanagariLo <= ch /\ ch <= DevanagariHi

\* str.isalpha() of one character: its Unicode category is a letter (L*).
\* ASCII letters, and the letters of the Devanagari block: U+0904..U+0939,
\* U+093D, U+0950, U+0958..U+0961, U+0971..U+097F.  The block's signs,
\* matras, virama (U+094D), dandas and digits are not alphabetic.
IsAlpha(ch) ==
    \/ 65 <= ch /\ ch <= 90
    \/ 97 <= ch /\ ch <= 122
    \/ 2308 <= ch /\ ch <= 2361
    \/ ch = 2365
    \/ ch = 2384
    \/ 2392 <= ch /\ ch <= 2401
    \/ 2417 <= ch /\ ch <= 2431

\* \s of the re module on the model's code points: space, \t \n \v \f \r.
IsSpace(ch) == ch = 32 \/ (9 <= ch /\ ch <= 13)

\* \d under re.UNICODE: ASCII digits and the Devanagari digits U+0966..U+096F.
IsDigit(ch) == (48 <= ch /\ ch <= 57) \/ (2406 <= ch /\ ch <= 2415)

\* str.strip()
RECURSIVE LStrip(_)
LStrip(t) == IF t # <<>> /\ IsSpace(Head(t)) THEN LStrip(Tail(t)) ELSE t

RECURSIVE RStrip(_)
RStrip(t) ==
    IF t # <<>> /\ IsSpace(t[Len(t)]) THEN RStrip(SubSeq(t, 1, Len(t) - 1)) ELSE t

Strip(t) == RStrip(LStrip(t))

\* " ".join(ts)
RECURSIVE JoinSpace(_)
JoinSpace(ts) ==
    IF ts = <<>> THEN <<>>
    ELSE IF Len(ts) = 1 THEN ts[1]
    ELSE ts[1] \o <<32>> \o JoinSpace(Tail(ts))

----------------------------------------------------------------------------
(* Script classifier.                                                       *)

\* script_ratio(text): the float dev / total as the pair <<dev, total>>;
\* 0.0 is <<0, 1>>.
RatioOf(dev, total) == IF total > 0 THEN <<dev, total>> ELSE <<0, 1>>

script_ratio(text) ==
    IF text = <<>> THEN <<0, 1>>
    ELSE RatioOf(Cardinality({k \in 1..Len(text) : is_devanagari_char(text[k])}),
                 Cardinality({k \in 1..Len(text) : IsAlpha(text[k])}))

\* guess_lang(text).  r > 0.3 and r < 0.05 compare the double nearest to
\* dev/total with the doubles nearest to 3/10 and 1/20.  For counts this
\* small two distinct quotients differ by far more than a rounding error
\* and equal quotients round to the same double, so the comparisons are
\* those of the exact quotients.
LangOfRatio(r) ==
    IF 10 * r[1] > 3 * r[2] THEN "hindi"
    ELSE IF 20 * r[1] < r[2] THEN "english"
    ELSE "mixed"

guess_lang(text) == LangOfRatio(script_ratio(text))

\* Texts of the classifier's check: a Latin letters, then k Devanagari
\* letters, then m Devanagari non-letters (virama), in that order.
MaxLatin == 20
MaxDevLetters == 6
MaxDevMarks == 2

Rep(ch, n) == [k \in 1..n |-> ch]

LangTexts ==
    {Rep(97, a) \o Rep(2325, k) \o Rep(2381, m) :
        a \in 0..MaxLatin, k \in 0..MaxDevLetters, m \in 0..MaxDevMarks}

LangInit == lg_text \in LangTexts /\ lg_out = ""

GuessLang ==
    /\ lg_out = ""
    /\ lg_out' = guess_lang(lg_text)
    /\ UNCHANGED lg_text
    /\ UNCHANGED <<nrVars, lnVars, sgVars, mVars>>

LangNext == GuessLang

InitLang == LangInit /\ NormIdle /\ LinesIdle /\ SegIdle /\ MainIdle

SpecLang == InitLang /\ [][LangNext]_vars

----------------------------------------------------------------------------
(* Candidate segmenter.                                                     *)

GapFactor == 6        \* "line_height * 6"
ChunkLines == 6       \* "min(n, i+6)"
OptionCap == 8        \* "j < i+8"
MinChars == 10        \* "> 10"

RECURSIVE SkipSpaces(_, _)
\* The position after \s* matched from position p of t (positions from 1).
SkipSpaces(t, p) ==
    IF p <= Len(t) /\ IsSpace(t[p]) THEN SkipSpaces(t, p + 1) ELSE p

RECURSIVE SkipDigits(_, _, _)
\* The position after \d{1,max} matched greedily from position p.
SkipDigits(t, p, max) ==
    IF max > 0 /\ p <= Len(t) /\ IsDigit(t[p]) THEN SkipDigits(t, p + 1, max - 1)
    ELSE p

HasAt(t, p, w) ==
    /\ p + Len(w) - 1 <= Len(t)
    /\ SubSeq(t, p, p + Len(w) - 1) = w

RECURSIVE UpToNewline(_)
\* What (.*) matches: the characters up to the first "\n".
UpToNewline(t) ==
    IF t = <<>> \/ Head(t) = 10 THEN <<>> ELSE <<Head(t)>> \o UpToNewline(Tail(t))

\* QUESTION_NUM_REGEX.match(line_text):
\*   ^\s*(?:Q(?:uestion)?\s*)?(\d{1,4})\s*[\).\:-]?\s*(.*)
\* The digits must follow the optional prefix directly, so no backtracking
\* finds a match the greedy reading misses.  The result is the start and the
\* end of group 1 and the start of group 2, or ok = FALSE.
\* p1: after the prefix, p2: after the digits, p3: after the \s* behind them.
MatchTail(t, p1, p2, p3) ==
    [ok |-> p2 > p1, from |-> p1, to |-> p2 - 1,
     rest |-> SkipSpaces(t, IF p3 <= Len(t) /\ t[p3] \in {41, 46, 58, 45}
                            THEN p3 + 1 ELSE p3)]

MatchDigits(t, p1, p2) == MatchTail(t, p1, p2, SkipSpaces(t, p2))

MatchFrom(t, p1) == MatchDigits(t, p1, SkipDigits(t, p1, 4))

\* After "Q" at p0: q is the position after "Question\s*" were it there.
QPrefixEnd(t, p0, q) ==
    IF HasAt(t, p0 + 1, <<117, 101, 115, 116, 105, 111, 110>>)
       /\ q <= Len(t) /\ IsDigit(t[q])
    THEN q
    ELSE SkipSpaces(t, p0 + 1)

AfterPrefix(t, p0) ==
    IF HasAt(t, p0, <<81>>) THEN QPrefixEnd(t, p0, SkipSpaces(t, p0 + 8)) ELSE p0

QuestionNumMatch(t) == MatchFrom(t, AfterPrefix(t, SkipSpaces(t, 1)))

DetectResult(line_text, m) ==
    IF m.ok
    THEN [qnum |-> SubSeq(line_text, m.from, m.to),
          rest |-> Strip(UpToNewline(SubSeq(line_text, m.rest, Len(line_text))))]
    ELSE [qnum |-> <<>>, rest |-> line_text]

\* detect_question_number(line_text): qnum is << >> for None.
detect_question_number(line_text) ==
    DetectResult(line_text, QuestionNumMatch(line_text))

\* re.match(r'^\s*[A-D]\s*[\.\)]\s*', text) and re.match(r'^\s*[A-D]\s*[\.\)]',
\* text): the trailing \s* of the first changes no answer.
OptionPunct(text, p1) == p1 <= Len(text) /\ text[p1] \in {46, 41}

OptionLetter(text, p0) ==
    /\ p0 <= Len(text) /\ text[p0] \in 65..68
    /\ OptionPunct(text, SkipSpaces(text, p0 + 1))

IsOptionMarker(text) == OptionLetter(text, SkipSpaces(text, 1))

_bbox(line) ==
    [left |-> line.left, top |-> line.top,
     width |-> line.right - line.left, height |-> line.bottom - line.top]

\* int(sum(confs)/len(confs)) if confs else None
MeanConf(confs) ==
    IF confs = <<>> THEN <<>> ELSE <<PyIntDiv(SumSeq(confs), Len(confs))>>

_avg_conf(blocks) == MeanConf(Concat([k \in 1..Len(blocks) |-> blocks[k].conf]))

\* One block.  The code's block holds lang, text, bbox and conf; "line" is a
\* history field added here: the position (from 1) of the line it was built
\* from.
MkBlock(lines, k, text) ==
    [lang |-> guess_lang(lines[k].text), text |-> text,
     bbox |-> _bbox(lines[k]), conf |-> lines[k].conf, line |-> k]

\* The height the gap test uses: "bottom - top or 1".
GapLineHeight(line) ==
    IF line.bottom - line.top = 0 THEN 1 ELSE line.bottom - line.top

\* The gap test of the inner loop: TRUE when the loop breaks before nxt.
GapBreaks(line, nxt) == nxt.top - line.bottom > GapLineHeight(line) * GapFactor

RECURSIVE NumberedLoopNoStop(_, _, _, _)
\* The inner loop of the numbered branch without the test of the next
\* line's question number.
NumberedLoopNoStop(lines, cur, k, blocks) ==
    IF k > Len(lines) THEN [blocks |-> blocks, i |-> k]
    ELSE IF GapBreaks(lines[cur], lines[k]) THEN [blocks |-> blocks, i |-> k]
    ELSE NumberedLoopNoStop(lines, k, k + 1,
                            Append(blocks, MkBlock(lines, k, lines[k].text)))

RECURSIVE NumberedLoop(_, _, _, _)
\* The inner loop of the numbered branch from index k (from 1), the current
\* line being lines[cur]: the blocks and the index it ends with.
NumberedLoop(lines, cur, k, blocks) ==
    IF k > Len(lines) THEN [blocks |-> blocks, i |-> k]
    ELSE IF detect_question_number(lines[k].text).qnum # <<>>
         THEN [blocks |-> blocks, i |-> k]
    ELSE IF GapBreaks(lines[cur], lines[k]) THEN [blocks |-> blocks, i |-> k]
    ELSE NumberedLoop(lines, k, k + 1,
                      Append(blocks, MkBlock(lines, k, lines[k].text)))

RECURSIVE OptionLoopNoStop(_, _, _, _)
\* The loop that follows an option-marker line without the test for a second
\* option-marker line.
OptionLoopNoStop(lines, start, j, blocks) ==
    IF j <= Len(lines) /\ j < start + OptionCap
    THEN OptionLoopNoStop(lines, start, j + 1,
                          Append(blocks, MkBlock(lines, j, lines[j].text)))
    ELSE [blocks |-> blocks, j |-> j]

RECURSIVE OptionLoop(_, _, _, _)
\* The loop that follows an option-marker line: from index j, of a chunk
\* that starts at index start.
OptionLoop(lines, start, j, blocks) ==
    IF j <= Len(lines) /\ ~IsOptionMarker(lines[j].text) /\ j < start + OptionCap
    THEN OptionLoop(lines, start, j + 1,
                    Append(blocks, MkBlock(lines, j, lines[j].text)))
    ELSE [blocks |-> blocks, j |-> j]

RECURSIVE ChunkLoop(_, _, _, _)
\* The accumulation loop of the unnumbered branch: the block of lines[j] is
\* appended before the option-marker test.
ChunkLoop(lines, start, j, blocks) ==
    IF j <= Min2(Len(lines), start + ChunkLines - 1)
    THEN IF IsOptionMarker(lines[j].text)
         THEN OptionLoop(lines, start, j + 1,
                         Append(blocks, MkBlock(lines, j, lines[j].text)))
         ELSE ChunkLoop(lines, start, j + 1,
                        Append(blocks, MkBlock(lines, j, lines[j].text)))
    ELSE [blocks |-> blocks, j |-> j]

\* len(" ".join(b['text'] for b in blocks).strip())
ChunkTextLen(blocks) ==
    Len(Strip(JoinSpace([k \in 1..Len(blocks) |-> blocks[k].text])))

ChunkKept(blocks) == ChunkTextLen(blocks) > MinChars

MkCandidate(qnum, blocks) ==
    [qnum |-> qnum, blocks |-> blocks, conf_avg |-> _avg_conf(blocks)]

\* The end of the numbered branch: r is what the inner loop returned.
NumberedEnd(cs, qnum, r) ==
    [candidates |-> Append(cs, MkCandidate(qnum, r.blocks)), i |-> r.i]

\* The end of the unnumbered branch advancing by one line after a kept chunk.
ChunkEndOneLine(cs, k, r) ==
    IF ChunkKept(r.blocks)
    THEN [candidates |-> Append(cs, MkCandidate(<<>>, r.blocks)), i |-> k + 1]
    ELSE [candidates |-> cs, i |-> k + 1]

\* The end of the unnumbered branch: r is what the accumulation returned.
ChunkEnd(cs, k, r) ==
    IF ChunkKept(r.blocks)
    THEN [candidates |-> Append(cs, MkCandidate(<<>>, r.blocks)), i |-> r.j]
    ELSE [candidates |-> cs, i |-> k + 1]

\* The body of the outer loop, d being detect_question_number(line['text']).
SegBody(lines, k, cs, d) ==
    IF d.qnum # <<>>
    THEN NumberedEnd(cs, d.qnum,
             NumberedLoop(lines, k, k + 1,
                 <<MkBlock(lines, k, IF d.rest # <<>> THEN d.rest
                                     ELSE lines[k].text)>>))
    ELSE ChunkEnd(cs, k, ChunkLoop(lines, k, k, <<>>))

\* One iteration of the outer loop at index k with the candidates cs: the
\* candidates and the index after it.
SegIteration(lines, k, cs) ==
    SegBody(lines, k, cs, detect_question_number(lines[k].text))

RECURSIVE SegFrom(_, _, _)
SegFromNext(lines, r) == SegFrom(lines, r.i, r.candidates)

SegFrom(lines, k, cs) ==
    IF k > Len(lines) THEN cs
    ELSE SegFromNext(lines, SegIteration(lines, k, cs))

\* group_lines_to_candidates(lines)
group_lines_to_candidates(lines) == SegFrom(lines, 1, <<>>)

\* The pages of the segmenter's check.  A page is a sequence of Text Lines
\* sorted by (top, left), as main passes them.
MaxLines == 8          \* long pages: at most this many lines
MaxOptionLines == 9    \* pages of option lines: at most this many lines
MaxGapLines == 2       \* pages with varied geometry: at most this many lines

MkLine(text, top, height, conf) ==
    [text |-> text, left |-> 0, top |-> top, right |-> 100,
     bottom |-> top + height, conf |-> conf]

\* "abcde", "B) x"
OptionTexts == {<<97, 98, 99, 100, 101>>, <<66, 41, 32, 120>>}

\* "abcde", "B) x", "Question 3: k"
LongTexts == {<<97, 98, 99, 100, 101>>, <<66, 41, 32, 120>>,
              <<81, 117, 101, 115, 116, 105, 111, 110, 32, 51, 58, 32, 107>>}

\* A long page: lines 20 high, 40 apart, and 200 more before every fourth.
LongPage(ts) ==
    [k \in 1..Len(ts) |->
        MkLine(ts[k], 40 * (k - 1) + 200 * ((k - 1) \div 4), 20, <<90>>)]

\* "7) x y", "Q 12", "abcdefghijk", "ab"
GapTexts == {<<55, 41, 32, 120, 32, 121>>, <<81, 32, 49, 50>>,
             <<97, 98, 99, 100, 101, 102, 103, 104, 105, 106, 107>>,
             <<97, 98>>}
GapHeights == {-5, 0, 10}
GapDeltas == {0, 6, 7, 71}

\* A page of varied geometry: the first line is at the top, line k + 1 is
\* ds[k] below line k, line k is hs[k] high; a line has a confidence when
\* its height is positive.
GapPage(ts, ds, hs) ==
    [k \in 1..Len(ts) |->
        MkLine(ts[k], SumSeq(SubSeq(ds, 1, k - 1)), hs[k],
               IF hs[k] > 0 THEN <<80 + k>> ELSE <<>>)]

SegInit ==
    /\ \/ \E n \in 0..MaxLines : \E ts \in [1..n -> LongTexts] :
             sg_lines = LongPage(ts)
       \/ \E n \in 1..MaxOptionLines : \E ts \in [1..n -> OptionTexts] :
             sg_lines = LongPage(ts)
       \/ \E n \in 1..MaxGapLines :
             \E ts \in [1..n -> GapTexts], ds \in [1..n - 1 -> GapDeltas],
                hs \in [1..n -> GapHeights] :
                sg_lines = GapPage(ts, ds, hs)
    /\ i = 1
    /\ candidates = <<>>
    /\ sg_pc = "loop"

\* Which branch an iteration took, read from its result r: a candidate with
\* a qnum was appended ("numbered"), one without ("chunk"), or none ("drop").
BranchOf(cs, r) ==
    IF Len(r.candidates) = Len(cs) THEN "drop"
    ELSE IF r.candidates[Len(r.candidates)].qnum # <<>> THEN "numbered"
    ELSE "chunk"

\* The iteration with result r is of the given branch, and is taken.
SegTake(branch, r) ==
    /\ BranchOf(candidates, r) = branch
    /\ candidates' = r.candidates
    /\ i' = r.i

\* An iteration of the outer loop whose line matches a question number.
SegNumbered ==
    /\ sg_pc = "loop" /\ i <= Len(sg_lines)
    /\ SegTake("numbered", SegIteration(sg_lines, i, candidates))
    /\ UNCHANGED <<sg_lines, sg_pc>>
    /\ UNCHANGED <<lgVars, nrVars, lnVars, mVars>>

\* An iteration whose line matches no question number and whose chunk is kept.
SegChunkEmit ==
    /\ sg_pc = "loop" /\ i <= Len(sg_lines)
    /\ SegTake("chunk", SegIteration(sg_lines, i, candidates))
    /\ UNCHANGED <<sg_lines, sg_pc>>
    /\ UNCHANGED <<lgVars, nrVars, lnVars, mVars>>

\* An iteration whose line matches no question number and whose chunk is
\* dropped: the index advances by one line.
SegChunkDiscard ==
    /\ sg_pc = "loop" /\ i <= Len(sg_lines)
    /\ SegTake("drop", SegIteration(sg_lines, i, candidates))
    /\ UNCHANGED <<sg_lines, sg_pc>>
    /\ UNCHANGED <<lgVars, nrVars, lnVars, mVars>>

\* The loop ends: return candidates.
SegReturn ==
    /\ sg_pc = "loop" /\ i > Len(sg_lines)
    /\ sg_pc' = "done"
    /\ UNCHANGED <<sg_lines, i, candidates>>
    /\ UNCHANGED <<lgVars, nrVars, lnVars, mVars>>

SegNext == SegNumbered \/ SegChunkEmit \/ SegChunkDiscard \/ SegReturn

InitSeg == SegInit /\ LangIdle /\ NormIdle /\ LinesIdle /\ MainIdle

SpecSeg == InitSeg /\ [][SegNext]_vars

----------------------------------------------------------------------------
(* Line reconstructor.                                                      *)

DefaultHeight == 20    \* "w.get('height',20) or 20", "... or 20"

\* sorted(ints)
IntKeys(arr) == [k \in 1..Len(arr) |-> <<arr[k]>>]

\* _median(arr) for a list of integers: << >> for None, else the median as
\* the quotient <<numerator, denominator>> (the mean of the two middle
\* values is a float, (a + b) / 2.0).
MedianOfSorted(arr, n) ==
    IF n = 0 THEN <<>>
    ELSE IF n % 2 = 1 THEN <<arr[(n \div 2) + 1], 1>>
    ELSE <<arr[n \div 2] + arr[(n \div 2) + 1], 2>>

_median(arr) == MedianOfSorted(Sorted(arr, IntKeys(arr)), Len(arr))

\* "x or 20" for x = _median(...): None and zero give 20.
OrDefault(m) == IF m = <<>> \/ m[1] = 0 THEN <<DefaultHeight, 1>> ELSE m

\* median_h of the page_words_sorted ws.
MedianH(ws) ==
    OrDefault(_median([k \in 1..Len(ws) |->
                          IF ws[k].height = 0 THEN DefaultHeight ELSE ws[k].height]))

\* The tolerance test with the whole median height for the half of it.
WithinWholeHeight(w, gtop, mh) == mh[2] * Abs(w.top - gtop) <= mh[1]

\* abs(w.top - g.top) <= median_h * y_tol, y_tol = 0.5 = 1/2.
WithinTol(w, gtop, mh) == 2 * mh[2] * Abs(w.top - gtop) <= mh[1]

Texts(words) == [k \in 1..Len(words) |-> Strip(words[k].text)]

RECURSIVE MinOf(_)
MinOf(xs) == IF Len(xs) = 1 THEN xs[1] ELSE Min2(xs[1], MinOf(Tail(xs)))

Max2(a, b) == IF a >= b THEN a ELSE b

RECURSIVE MaxOf(_)
MaxOf(xs) == IF Len(xs) = 1 THEN xs[1] ELSE Max2(xs[1], MaxOf(Tail(xs)))

\* conf_avg = int(sum(confs)/len(confs)) if confs else None
ConfAvg(words) == MeanConf(Concat([k \in 1..Len(words) |-> words[k].conf]))

\* The line of the words of one group, sorted by left already.
LineOfSorted(words) ==
    [text   |-> Strip(JoinSpace(Texts(words))),
     left   |-> MinOf([k \in 1..Len(words) |-> words[k].left]),
     top    |-> MinOf([k \in 1..Len(words) |-> words[k].top]),
     right  |-> MaxOf([k \in 1..Len(words) |-> words[k].left + words[k].width]),
     bottom |-> MaxOf([k \in 1..Len(words) |-> words[k].top + words[k].height]),
     conf   |-> ConfAvg(words),
     words  |-> words]

\* sorted(words, key=lambda w: w.get('left',0)), then the line.
LineOf(words) ==
    LineOfSorted(Sorted(words, [k \in 1..Len(words) |-> <<words[k].left>>]))

LineKey(w) == <<w.block_num, w.par_num, w.line_num>>

RECURSIVE WordsOfKey(_, _)
\* by_line[key]: the words of the key, in the page's order.
WordsOfKey(ws, key) ==
    IF ws = <<>> THEN <<>>
    ELSE IF LineKey(Head(ws)) = key THEN <<Head(ws)>> \o WordsOfKey(Tail(ws), key)
    ELSE WordsOfKey(Tail(ws), key)

RECURSIVE SortedKeys(_)
\* sorted(by_line.keys(), key=lambda t: (t[0], t[1], t[2]))
SortedKeys(S) ==
    IF S = {} THEN <<>>
    ELSE LET m == CHOOSE x \in S : \A y \in S : ~TupleLess(y, x)
         IN <<m>> \o SortedKeys(S \ {m})

LinesOfKeys(ws, keys) == [k \in 1..Len(keys) |-> LineOf(WordsOfKey(ws, keys[k]))]

\* The branch "if has_line_num".
MetadataLines(ws) ==
    LinesOfKeys(ws, SortedKeys({LineKey(ws[k]) : k \in 1..Len(ws)}))

has_line_num(ws) == \E k \in 1..Len(ws) : ws[k].line_num # 0

\* The first group the token fits, 0 when it fits none.
FirstFit(gs, w, mh) ==
    IF \E g \in 1..Len(gs) : WithinTol(w, gs[g].top, mh)
    THEN CHOOSE g \in 1..Len(gs) :
            /\ WithinTol(w, gs[g].top, mh)
            /\ \A h \in 1..(g - 1) : ~WithinTol(w, gs[h].top, mh)
    ELSE 0

\* g['top'] = int(sum(x['top'] for x in g['words'])/len(g['words']))
AverageTop(words) ==
    PyIntDiv(SumSeq([k \in 1..Len(words) |-> words[k].top]), Len(words))

GroupOf(words) == [top |-> AverageTop(words), words |-> words]

\* The body of the clustering loop for the token w, g being FirstFit.
PlaceAt(gs, w, g) ==
    IF g = 0 THEN Append(gs, [top |-> w.top, words |-> <<w>>])
    ELSE [gs EXCEPT ![g] = GroupOf(Append(gs[g].words, w))]

PlaceWord(gs, w, mh) == PlaceAt(gs, w, FirstFit(gs, w, mh))

RECURSIVE ClusterFrom(_, _, _, _)
ClusterFrom(ws, k, gs, mh) ==
    IF k > Len(ws) THEN gs
    ELSE ClusterFrom(ws, k + 1, PlaceWord(gs, ws[k], mh), mh)

SortedByTop(ws) == Sorted(ws, [k \in 1..Len(ws) |-> <<ws[k].top>>])

LinesOfGroups(gs) == [g \in 1..Len(gs) |-> LineOf(gs[g].words)]

ClusterLines(ws) == LinesOfGroups(ClusterFrom(ws, 1, <<>>, MedianH(ws)))

\* group_words_to_lines(page_words)
group_words_to_lines(ws) ==
    IF has_line_num(ws) THEN MetadataLines(ws) ELSE ClusterLines(SortedByTop(ws))

\* The pages of the reconstructor's check.
MaxWords == 4          \* pages of the geometric family: at most this many tokens
MaxMetaWords == 3      \* pages of the layout family: at most this many tokens

MkWord(top, height, left, conf, key) ==
    [page |-> 1, text |-> <<97>>, conf |-> conf, left |-> left, top |-> top,
     width |-> 8, height |-> height,
     block_num |-> key[1], par_num |-> key[2], line_num |-> key[3]]

ClusterTops == {0, 10, 15, 18}
ClusterHeights == {0, 20, 40}

\* The geometric family: no layout identifiers; the tokens come highest top
\* first (the reverse of the order the clustering wants), token k at left
\* 10 * k.
ClusterPage(tops, hs) ==
    [k \in 1..Len(tops) |-> MkWord(tops[k], hs[k], 10 * k, <<>>, <<0, 0, 0>>)]

MetaLineNums == {0, 1, 2}
MetaConfs == {<<>>, <<-1>>, <<0>>, <<95>>}

\* The layout family: token k is at top 10 * k and left 50 - 10 * k, 20 high;
\* the first token is of block 1, the others of block 0.
MetaPage(lns, cfs) ==
    [k \in 1..Len(lns) |->
        MkWord(10 * k, 20, 50 - 10 * k, cfs[k],
               <<IF k = 1 THEN 1 ELSE 0, 0, lns[k]>>)]

LinesInit ==
    /\ \/ \E n \in 0..MaxWords :
             \E tops \in [1..n -> ClusterTops], hs \in [1..n -> ClusterHeights] :
                /\ \A k \in 1..(n - 1) : tops[k] >= tops[k + 1]
                /\ page_words = ClusterPage(tops, hs)
       \/ \E n \in 1..MaxMetaWords :
             \E lns \in [1..n -> MetaLineNums], cfs \in [1..n -> MetaConfs] :
                page_words = MetaPage(lns, cfs)
    /\ ln_pc = "start"
    /\ ln_sorted = <<>>
    /\ ln_k = 0
    /\ groups = <<>>
    /\ ln_last = [kind |-> "none", g |-> 0]
    /\ ln_lines = <<>>

\* Lines 84-101: grouping by (block_num, par_num, line_num).
LinesByMetadata ==
    /\ ln_pc = "start" /\ has_line_num(page_words)
    /\ ln_lines' = MetadataLines(page_words)
    /\ ln_pc' = "done"
    /\ UNCHANGED <<page_words, ln_sorted, ln_k, groups, ln_last>>
    /\ UNCHANGED <<lgVars, nrVars, sgVars, mVars>>

\* Lines 104-106: the fallback starts.
LinesSortWords ==
    /\ ln_pc = "start" /\ ~has_line_num(page_words)
    /\ ln_sorted' = SortedByTop(page_words)
    /\ ln_k' = 1
    /\ groups' = <<>>
    /\ ln_pc' = "cluster"
    /\ UNCHANGED <<page_words, ln_last, ln_lines>>
    /\ UNCHANGED <<lgVars, nrVars, sgVars, mVars>>

\* The token with FirstFit g is placed; ln_last says where.
PlaceStep(g) ==
    /\ groups' = PlaceAt(groups, ln_sorted[ln_k], g)
    /\ ln_last' = [kind |-> IF g = 0 THEN "opened" ELSE "joined", g |-> g]
    /\ ln_k' = ln_k + 1

\* Lines 107-115: the token joins the first group it fits.
LinesJoinGroup ==
    /\ ln_pc = "cluster" /\ ln_k <= Len(ln_sorted)
    /\ FirstFit(groups, ln_sorted[ln_k], MedianH(ln_sorted)) # 0
    /\ PlaceStep(FirstFit(groups, ln_sorted[ln_k], MedianH(ln_sorted)))
    /\ UNCHANGED <<page_words, ln_pc, ln_sorted, ln_lines>>
    /\ UNCHANGED <<lgVars, nrVars, sgVars, mVars>>

\* Lines 116-117: the token fits no group and opens one.
LinesOpenGroup ==
    /\ ln_pc = "cluster" /\ ln_k <= Len(ln_sorted)
    /\ FirstFit(groups, ln_sorted[ln_k], MedianH(ln_sorted)) = 0
    /\ PlaceStep(0)
    /\ UNCHANGED <<page_words, ln_pc, ln_sorted, ln_lines>>
    /\ UNCHANGED <<lgVars, nrVars, sgVars, mVars>>

\* Lines 118-128: the lines of the groups.
LinesBuild ==
    /\ ln_pc = "cluster" /\ ln_k > Len(ln_sorted)
    /\ ln_lines' = LinesOfGroups(groups)
    /\ ln_pc' = "done"
    /\ ln_last' = [kind |-> "built", g |-> 0]
    /\ UNCHANGED <<page_words, ln_sorted, ln_k, groups>>
    /\ UNCHANGED <<lgVars, nrVars, sgVars, mVars>>

LinesNext ==
    LinesByMetadata \/ LinesSortWords \/ LinesJoinGroup \/ LinesOpenGroup
        \/ LinesBuild

InitLines == LinesInit /\ LangIdle /\ NormIdle /\ SegIdle /\ MainIdle

SpecLines == InitLines /\ [][LinesNext]_vars

----------------------------------------------------------------------------
(* Record normalizer.                                                       *)
(*                                                                          *)
(* A JSON value is [t, n, s]: t its type ("none", "int", "str", "list",     *)
(* "dict", or "missing" for a key the mapping does not hold), n the         *)
(* integer or the list's length, s the string.  A raw record is a function  *)
(* f from RowKeys to such values; the keys "bbox.<k>" hold the entries of   *)
(* the nested object when f["bbox"] is a dict.                              *)

PyMissing == [t |-> "missing", n |-> 0, s |-> <<>>]
PyNone == [t |-> "none", n |-> 0, s |-> <<>>]
PyInt(n) == [t |-> "int", n |-> n, s |-> <<>>]
PyStr(s) == [t |-> "str", n |-> 0, s |-> s]
PyList(n) == [t |-> "list", n |-> n, s |-> <<>>]
PyDict == [t |-> "dict", n |-> 0, s |-> <<>>]

TopKeys == {"page", "text", "ocr_text", "conf", "left", "top", "width", "height",
            "bbox", "block_num", "block_id", "par_num", "line_num"}
BoxKeys == {"bbox.left", "bbox.x", "bbox.top", "bbox.y", "bbox.width", "bbox.w",
            "bbox.height", "bbox.h"}
RowKeys == TopKeys \cup BoxKeys

\* obj.get(k)
Get(f, k) == IF f[k].t = "missing" THEN PyNone ELSE f[k]

\* obj.get(k, 0) and obj.get(k, 1)
GetOr(f, k, d) == IF f[k].t = "missing" THEN PyInt(d) ELSE f[k]

\* bool(v); a dict is the nested object, true when it holds a key.
Truthy(f, v) ==
    CASE v.t = "int" -> v.n # 0
      [] v.t = "str" -> v.s # <<>>
      [] v.t = "list" -> v.n > 0
      [] v.t = "dict" -> \E k \in BoxKeys : f[k].t # "missing"
      [] OTHER -> FALSE

\* a or b
Or(f, a, b) == IF Truthy(f, a) THEN a ELSE b

\* The value of a string of digits.
RECURSIVE DigitsVal(_, _)
DigitsVal(ds, acc) ==
    IF ds = <<>> THEN acc
    ELSE DigitsVal(Tail(ds),
                   10 * acc + (IF Head(ds) <= 57 THEN Head(ds) - 48
                               ELSE Head(ds) - 2406))

AllDigits(ds) == ds # <<>> /\ \A k \in 1..Len(ds) : IsDigit(ds[k])

\* int(s) for the stripped string t: an optional sign, then digits.
ParseStripped(t) ==
    IF t # <<>> /\ Head(t) = 45 /\ AllDigits(Tail(t))
    THEN [exc |-> "", n |-> -DigitsVal(Tail(t), 0)]
    ELSE IF t # <<>> /\ Head(t) = 43 /\ AllDigits(Tail(t))
    THEN [exc |-> "", n |-> DigitsVal(Tail(t), 0)]
    ELSE IF AllDigits(t) THEN [exc |-> "", n |-> DigitsVal(t, 0)]
    ELSE [exc |-> "ValueError", n |-> 0]

\* int(v): the integer, or the exception it raises.
IntOf(v) ==
    CASE v.t = "int" -> [exc |-> "", n |-> v.n]
      [] v.t = "str" -> ParseStripped(Strip(v.s))
      [] OTHER -> [exc |-> "TypeError", n |-> 0]

\* s.lstrip('-')
RECURSIVE LStripMinus(_)
LStripMinus(t) == IF t # <<>> /\ Head(t) = 45 THEN LStripMinus(Tail(t)) ELSE t

\* int(conf) inside try/except: None on an exception.
TryInt(r) == IF r.exc = "" THEN <<r.n>> ELSE <<>>

\* Lines 33-37.  str(conf).lstrip('-').isdigit() is true of every int, of a
\* string that is digits behind any number of '-', and of nothing else
\* here (str() of a list starts with '[').
ConfOf(conf) ==
    CASE conf.t = "int" -> <<conf.n>>
      [] conf.t = "str" ->
            IF AllDigits(LStripMinus(conf.s)) THEN TryInt(IntOf(conf)) ELSE <<>>
      [] OTHER -> <<>>

\* (a or b or "").strip(): a value that is no string has no strip().
TextOf(v) ==
    IF v.t = "str" THEN [exc |-> "", s |-> Strip(v.s)]
    ELSE [exc |-> "AttributeError", s |-> <<>>]

HasFlatBox(f) ==
    /\ f["left"].t # "missing" /\ f["top"].t # "missing"
    /\ f["width"].t # "missing" /\ f["height"].t # "missing"

\* bbox.get(k) for bbox = obj.get('bbox') or {}: b is obj.get('bbox').
BoxGet(f, b, k) ==
    IF b.t = "dict" /\ f[k].t # "missing" THEN f[k] ELSE PyNone

\* bbox = obj.get('bbox') or {} is something without get().
BoxBroken(f, b) == Truthy(f, b) /\ b.t # "dict"

\* int(bbox.get(k1) or bbox.get(k2) or obj.get(k, 0) or 0)
NestedDim(f, b, k1, k2, k) ==
    IF BoxBroken(f, b) THEN [exc |-> "AttributeError", n |-> 0]
    ELSE IntOf(Or(f, Or(f, Or(f, BoxGet(f, b, k1), BoxGet(f, b, k2)),
                        GetOr(f, k, 0)),
                  PyInt(0)))

\* Lines 40-51: one of left, top, width, height.
Dim(f, k, k1, k2) ==
    IF HasFlatBox(f) THEN IntOf(Or(f, Get(f, k), PyInt(0)))
    ELSE NestedDim(f, Get(f, "bbox"), k1, k2, k)

\* The first exception of the statements, in the order they run.
RECURSIVE FirstExc(_)
FirstExc(es) ==
    IF es = <<>> THEN ""
    ELSE IF Head(es) # "" THEN Head(es)
    ELSE FirstExc(Tail(es))

NoToken ==
    [page |-> 0, text |-> <<>>, conf |-> <<>>, left |-> 0, top |-> 0, width |-> 0,
     height |-> 0, block_num |-> 0, par_num |-> 0, line_num |-> 0]

\* The function's outcome from those of its statements.
RowOutcome(exc, page, text, conf, l, t, w, h, bn, pn, ln) ==
    IF exc # "" THEN [exc |-> exc, token |-> NoToken]
    ELSE [exc |-> "",
          token |-> [page |-> page.n, text |-> text.s, conf |-> conf,
                     left |-> l.n, top |-> t.n, width |-> w.n, height |-> h.n,
                     block_num |-> bn.n, par_num |-> pn.n, line_num |-> ln.n]]

RowOf(page, text, conf, l, t, w, h, bn, pn, ln) ==
    RowOutcome(FirstExc(<<page.exc, text.exc, l.exc, t.exc, w.exc, h.exc,
                          bn.exc, pn.exc, ln.exc>>),
               page, text, conf, l, t, w, h, bn, pn, ln)

\* normalize_row(obj) for a mapping with the entries f.
NormalizeMapping(f) ==
    RowOf(IntOf(GetOr(f, "page", 1)),
          TextOf(Or(f, Or(f, Get(f, "text"), Get(f, "ocr_text")), PyStr(<<>>))),
          ConfOf(Get(f, "conf")),
          Dim(f, "left", "bbox.left", "bbox.x"),
          Dim(f, "top", "bbox.top", "bbox.y"),
          Dim(f, "width", "bbox.width", "bbox.w"),
          Dim(f, "height", "bbox.height", "bbox.h"),
          IntOf(Or(f, Or(f, Get(f, "block_num"), Get(f, "block_id")), PyInt(0))),
          IntOf(Or(f, Get(f, "par_num"), PyInt(0))),
          IntOf(Or(f, Get(f, "line_num"), PyInt(0))))

\* normalize_row(obj): a value that is no mapping has no get().
normalize_row(obj) ==
    IF obj.mapping THEN NormalizeMapping(obj.f)
    ELSE [exc |-> "AttributeError", token |-> NoToken]

\* The records of the normalizer's check: two well-formed records, one with
\* flat geometry and one with a nested box, with at most MaxOddFields of
\* their entries replaced by an odd value.
MaxOddFields == 2

NoEntries == [k \in RowKeys |-> PyMissing]

\* {"page": 1, "text": "a", "conf": 90, "left": 5, "top": 6, "width": 7,
\*  "height": 8}
FlatRow ==
    [NoEntries EXCEPT !["page"] = PyInt(1), !["text"] = PyStr(<<97>>),
                      !["conf"] = PyInt(90), !["left"] = PyInt(5),
                      !["top"] = PyInt(6), !["width"] = PyInt(7),
                      !["height"] = PyInt(8)]

\* {"page": 2, "ocr_text": " b ", "conf": "-5", "block_id": 3,
\*  "line_num": "2", "bbox": {"x": 1, "top": 2, "w": 3, "height": 4}}
NestedRow ==
    [NoEntries EXCEPT !["page"] = PyInt(2), !["ocr_text"] = PyStr(<<32, 98, 32>>),
                      !["conf"] = PyStr(<<45, 53>>), !["block_id"] = PyInt(3),
                      !["line_num"] = PyStr(<<50>>), !["bbox"] = PyDict,
                      !["bbox.x"] = PyInt(1), !["bbox.top"] = PyInt(2),
                      !["bbox.w"] = PyInt(3), !["bbox.height"] = PyInt(4)]

\* absent, null, 0, "12", "x", [1]
OddValues == {PyMissing, PyNone, PyInt(0), PyStr(<<49, 50>>), PyStr(<<120>>),
              PyList(1)}

RECURSIVE OddRows(_, _)
OddRows(base, n) ==
    IF n = 0 THEN {base}
    ELSE OddRows(base, n - 1) \cup
         {[f EXCEPT ![k] = v] : f \in OddRows(base, n - 1), k \in RowKeys,
                                v \in OddValues}

NormPending == [exc |-> "pending", token |-> NoToken]

NormInit ==
    /\ \/ \E f \in OddRows(FlatRow, MaxOddFields) \cup OddRows(NestedRow, MaxOddFields) :
             nr_obj = [mapping |-> TRUE, f |-> f]
       \/ nr_obj = [mapping |-> FALSE, f |-> NoEntries]
    /\ nr_out = NormPending

\* normalize_row returns a token.
NormReturn ==
    /\ nr_out = NormPending
    /\ normalize_row(nr_obj).exc = ""
    /\ nr_out' = normalize_row(nr_obj)
    /\ UNCHANGED nr_obj
    /\ UNCHANGED <<lgVars, lnVars, sgVars, mVars>>

\* normalize_row raises.
NormRaise ==
    /\ nr_out = NormPending
    /\ normalize_row(nr_obj).exc # ""
    /\ nr_out' = normalize_row(nr_obj)
    /\ UNCHANGED nr_obj
    /\ UNCHANGED <<lgVars, lnVars, sgVars, mVars>>

NormNext == NormReturn \/ NormRaise

InitNorm == NormInit /\ LangIdle /\ LinesIdle /\ SegIdle /\ MainIdle

SpecNorm == InitNorm /\ [][NormNext]_vars

----------------------------------------------------------------------------
(* Page loader and main.                                                    *)
(*                                                                          *)
(* A line of the input file is [kind, obj]: kind "blank" (only white        *)
(* space), "bad" (no JSON) or "json", obj the decoded value of a "json"     *)
(* line, as normalize_row takes it.                                         *)

\* The outcome of the loop body of load_blocks for one line: the exception
\* it raises ("" for none) and the token it appends (none for a blank line).
LoadRow(r) ==
    IF r.exc # "" THEN [exc |-> r.exc, tokens |-> <<>>]
    ELSE [exc |-> "", tokens |-> <<r.token>>]

LoadLine(line) ==
    CASE line.kind = "blank" -> [exc |-> "", tokens |-> <<>>]
      [] line.kind = "bad" -> [exc |-> "JSONDecodeError", tokens |-> <<>>]
      [] OTHER -> LoadRow(normalize_row(line.obj))

RECURSIVE LoadFrom(_, _)
LoadAfter(lines, tokens, r) ==
    IF r.exc # "" THEN [exc |-> r.exc, tokens |-> <<>>]
    ELSE LoadFrom(Tail(lines), tokens \o r.tokens)

\* The loop of load_blocks: the tokens in the file's order, or the exception.
LoadFrom(lines, tokens) ==
    IF lines = <<>> THEN [exc |-> "", tokens |-> tokens]
    ELSE LoadAfter(lines, tokens, LoadLine(Head(lines)))

\* load_blocks(jsonl_path): open() raises when the file is missing.
load_blocks(input) ==
    IF ~input.exists THEN [exc |-> "FileNotFoundError", tokens |-> <<>>]
    ELSE LoadFrom(input.lines, <<>>)

RECURSIVE WordsOfPage(_, _)
\* blocks_by_page[page]
WordsOfPage(tokens, page) ==
    IF tokens = <<>> THEN <<>>
    ELSE IF Head(tokens).page = page
         THEN <<Head(tokens)>> \o WordsOfPage(Tail(tokens), page)
    ELSE WordsOfPage(Tail(tokens), page)

RECURSIVE SortedInts(_)
\* The keys of sorted(pages.items())
SortedInts(S) ==
    IF S = {} THEN <<>>
    ELSE LET m == CHOOSE x \in S : \A y \in S : x <= y
         IN <<m>> \o SortedInts(S \ {m})

\* sorted(lines, key=lambda l: (l['top'], l['left']))
LinesSorted(lines) ==
    Sorted(lines, [k \in 1..Len(lines) |-> <<lines[k].top, lines[k].left>>])

WithPage(cs, page) ==
    [k \in 1..Len(cs) |->
        [qnum |-> cs[k].qnum, blocks |-> cs[k].blocks,
         conf_avg |-> cs[k].conf_avg, page |-> page]]

\* The candidates of one page, with c['page'] = page.
PageCandidates(words, page) ==
    WithPage(group_lines_to_candidates(LinesSorted(group_words_to_lines(words))),
             page)

CandidatesOfPages(tokens, pages) ==
    Concat([k \in 1..Len(pages) |->
               PageCandidates(WordsOfPage(tokens, pages[k]), pages[k])])

\* Lines 205-212: all_candidates of the loaded tokens.
AllCandidates(tokens) ==
    CandidatesOfPages(tokens,
                      SortedInts({tokens[k].page : k \in 1..Len(tokens)}))

\* The runs of main's check: at most MaxInputLines lines, each a blank line,
\* a line that is no JSON, or one of a few records.
MaxInputLines == 3

Row(f) == [kind |-> "json", obj |-> [mapping |-> TRUE, f |-> f]]

\* {"page": 2, "text": "7) x", "conf": 90, "left": 0, "top": 0, "width": 9,
\*  "height": 9}
\* {"page": 1, "text": "abcdefghijk", "bbox": {"x": 1, "y": 40, "w": 3,
\*  "h": 4}}
\* {"page": 1, "text": "ab", "conf": "-5", "left": 0, "top": 50,
\*  "width": 5, "height": 0}
\* [1], a value that is no mapping
InputLines ==
    {[kind |-> "blank", obj |-> [mapping |-> FALSE, f |-> NoEntries]],
     [kind |-> "bad", obj |-> [mapping |-> FALSE, f |-> NoEntries]],
     [kind |-> "json", obj |-> [mapping |-> FALSE, f |-> NoEntries]],
     Row([NoEntries EXCEPT !["page"] = PyInt(2),
                           !["text"] = PyStr(<<55, 41, 32, 120>>),
                           !["conf"] = PyInt(90), !["left"] = PyInt(0),
                           !["top"] = PyInt(0), !["width"] = PyInt(9),
                           !["height"] = PyInt(9)]),
     Row([NoEntries EXCEPT !["page"] = PyInt(1),
                           !["text"] = PyStr(<<97, 98, 99, 100, 101, 102, 103,
                                               104, 105, 106, 107>>),
                           !["bbox"] = PyDict, !["bbox.x"] = PyInt(1),
                           !["bbox.y"] = PyInt(40), !["bbox.w"] = PyInt(3),
                           !["bbox.h"] = PyInt(4)]),
     Row([NoEntries EXCEPT !["page"] = PyInt(1), !["text"] = PyStr(<<97, 98>>),
                           !["conf"] = PyStr(<<45, 53>>), !["left"] = PyInt(0),
                           !["top"] = PyInt(50), !["width"] = PyInt(5),
                           !["height"] = PyInt(0)])}

\* The output file: untouched (it holds what it held before the run, or
\* does not exist), or opened by this run and holding content.
Untouched == [touched |-> FALSE, content |-> <<>>]

MainInit ==
    /\ m_pc = "load"
    /\ \E n \in 0..MaxInputLines : \E ls \in [1..n -> InputLines] :
          \E ex \in BOOLEAN : m_input = [exists |-> ex, lines |-> ls]
    /\ m_outOk \in BOOLEAN
    /\ m_all = <<>>
    /\ m_file = Untouched
    /\ m_written = 0

\* What load_blocks returned decides the step.
LoadStep(r) ==
    /\ m_pc' = IF r.exc # "" THEN "aborted" ELSE "open"
    /\ m_all' = IF r.exc # "" THEN <<>> ELSE AllCandidates(r.tokens)

\* Lines 204-212: load_blocks raises (missing file, a line that is no JSON,
\* normalize_row raising) and the run aborts; or all_candidates is built.
MainLoad ==
    /\ m_pc = "load"
    /\ LoadStep(load_blocks(m_input))
    /\ UNCHANGED <<m_input, m_outOk, m_file, m_written>>
    /\ UNCHANGED <<lgVars, nrVars, lnVars, sgVars>>

\* Line 213: open(out_path, 'w') truncates the file.
MainOpen ==
    /\ m_pc = "open" /\ m_outOk
    /\ m_file' = [touched |-> TRUE, content |-> <<>>]
    /\ m_pc' = "write"
    /\ UNCHANGED <<m_input, m_outOk, m_all, m_written>>
    /\ UNCHANGED <<lgVars, nrVars, lnVars, sgVars>>

\* Line 213: open(out_path, 'w') raises, the run aborts.
MainOpenFail ==
    /\ m_pc = "open" /\ ~m_outOk
    /\ m_pc' = "aborted"
    /\ UNCHANGED <<m_input, m_outOk, m_all, m_file, m_written>>
    /\ UNCHANGED <<lgVars, nrVars, lnVars, sgVars>>

\* Lines 214-215: one candidate is written.
MainWrite ==
    /\ m_pc = "write" /\ m_written < Len(m_all)
    /\ m_file' = [m_file EXCEPT !.content = Append(@, m_all[m_written + 1])]
    /\ m_written' = m_written + 1
    /\ UNCHANGED <<m_pc, m_input, m_outOk, m_all>>
    /\ UNCHANGED <<lgVars, nrVars, lnVars, sgVars>>

\* Line 215: f.write raises (the device is full, the file went away); the
\* with statement closes the file, which keeps what was written, and the
\* run aborts.
MainWriteFail ==
    /\ m_pc = "write" /\ m_written < Len(m_all)
    /\ m_pc' = "aborted"
    /\ UNCHANGED <<m_input, m_outOk, m_all, m_file, m_written>>
    /\ UNCHANGED <<lgVars, nrVars, lnVars, sgVars>>

\* Line 216: the file is closed and the count printed.
MainDone ==
    /\ m_pc = "write" /\ m_written = Len(m_all)
    /\ m_pc' = "done"
    /\ UNCHANGED <<m_input, m_outOk, m_all, m_file, m_written>>
    /\ UNCHANGED <<lgVars, nrVars, lnVars, sgVars>>

MainNext ==
    MainLoad \/ MainOpen \/ MainOpenFail \/ MainWrite \/ MainWriteFail \/ MainDone

InitMain == MainInit /\ LangIdle /\ NormIdle /\ LinesIdle /\ SegIdle

SpecMain == InitMain /\ [][MainNext]_vars

----------------------------------------------------------------------------
(* Properties of the candidate segmenter, checked under SpecSeg.            *)

Matches(k) == detect_question_number(sg_lines[k].text).qnum # <<>>

CandIdx == 1..Len(candidates)

BlockLines(c) == [k \in 1..Len(c.blocks) |-> c.blocks[k].line]

\* The source lines of all blocks, candidate after candidate.
EmittedLines == Concat([n \in CandIdx |-> BlockLines(candidates[n])])

\* The block texts alone, concatenated and trimmed.
TextsAlone(c) == Strip(Concat([k \in 1..Len(c.blocks) |-> c.blocks[k].text]))

MarkerCount(c) ==
    Cardinality({k \in 1..Len(c.blocks) : IsOptionMarker(c.blocks[k].text)})

\* C1 (as claimed): every emitted Candidate has at least one Block, the block
\* texts alone of an unnumbered Candidate, concatenated and trimmed, are
\* longer than 10 characters, and a page without a question-number line
\* whose lines' combined text is at most 10 characters yields no Candidate.
C1_UnnumberedTextOver10 ==
    /\ \A n \in CandIdx :
          /\ Len(candidates[n].blocks) >= 1
          /\ candidates[n].qnum = <<>> => Len(TextsAlone(candidates[n])) > MinChars
    /\ (/\ sg_pc = "done"
        /\ \A k \in 1..Len(sg_lines) : ~Matches(k)
        /\ Len(Concat([k \in 1..Len(sg_lines) |-> sg_lines[k].text])) <= MinChars)
       => candidates = <<>>

\* Where line k ended up: the <<candidate, block>> positions built from it.
PlacesOf(k) ==
    {<<n, b>> \in CandIdx \X (1..Len(sg_lines)) :
        b <= Len(candidates[n].blocks) /\ candidates[n].blocks[b].line = k}

OpensNumbered(k) ==
    \E n \in CandIdx :
        /\ PlacesOf(k) = {<<n, 1>>}
        /\ candidates[n].qnum = detect_question_number(sg_lines[k].text).qnum

\* C6 (as claimed): every line that matches the numbered-question pattern is
\* the first Block of a Candidate whose qnum is its number, and is never a
\* Block of an unnumbered Candidate nor a non-first Block of any Candidate.
C6_EveryMatchOpens ==
    \A k \in 1..Len(sg_lines) :
        Matches(k) =>
            /\ \A p \in PlacesOf(k) : p[2] = 1 /\ candidates[p[1]].qnum # <<>>
            /\ sg_pc = "done" => OpensNumbered(k)

\* C6 (amended): a line that matches the pattern is never a non-first Block
\* of a numbered Candidate and never the first Block of an unnumbered one;
\* when the pass is over it is the Block of exactly one Candidate: the first
\* Block of a Candidate whose qnum is its number, or a non-first Block of an
\* unnumbered Candidate (the accumulation of the unnumbered branch does not
\* look for question numbers).
C6_MatchOpensUnlessInChunk ==
    \A k \in 1..Len(sg_lines) :
        Matches(k) =>
            /\ \A p \in PlacesOf(k) : (p[2] = 1) <=> (candidates[p[1]].qnum # <<>>)
            /\ sg_pc = "done" =>
                  \/ OpensNumbered(k)
                  \/ \E n \in CandIdx, b \in 2..OptionCap :
                        PlacesOf(k) = {<<n, b>>} /\ candidates[n].qnum = <<>>

\* Both outcomes of C6 happen on one page: a matching line opened its
\* Candidate, another one is inside an unnumbered Candidate.
C6_Witness ==
    /\ sg_pc = "done"
    /\ \E k \in 1..Len(sg_lines) : Matches(k) /\ OpensNumbered(k)
    /\ \E k \in 1..Len(sg_lines) :
          Matches(k) /\ \E p \in PlacesOf(k) : candidates[p[1]].qnum = <<>>

\* The height the claim C7 states: bottom - top if positive, else 1.
ClaimedHeight(line) ==
    IF line.bottom - line.top > 0 THEN line.bottom - line.top ELSE 1

ClaimedAppend(P, N) == N.top - P.bottom <= GapFactor * ClaimedHeight(P)

\* C7 (as claimed): in a numbered Candidate a non-matching line N follows the
\* line P as the next Block exactly when N.top - P.bottom <= 6 x h, with
\* h = P.bottom - P.top if that is positive and 1 otherwise: consecutive
\* Blocks satisfy the test, and the non-matching line behind the last Block
\* fails it.
C7_GapRule ==
    \A n \in CandIdx :
        candidates[n].qnum # <<>> =>
            LET ls == BlockLines(candidates[n])
                last == ls[Len(ls)]
            IN /\ \A b \in 1..Len(ls) - 1 :
                     ClaimedAppend(sg_lines[ls[b]], sg_lines[ls[b + 1]])
               /\ (last < Len(sg_lines) /\ ~Matches(last + 1))
                     => ~ClaimedAppend(sg_lines[last], sg_lines[last + 1])

\* C8: an unnumbered Candidate without an option-marker line has at most 6
\* Blocks; one with an option-marker line has at most 8 Blocks and exactly
\* one option-marker line.
C8_ChunkCaps ==
    \A n \in CandIdx :
        candidates[n].qnum = <<>> =>
            /\ MarkerCount(candidates[n]) = 0 => Len(candidates[n].blocks) <= ChunkLines
            /\ MarkerCount(candidates[n]) > 0 =>
                  /\ Len(candidates[n].blocks) <= OptionCap
                  /\ MarkerCount(candidates[n]) = 1

\* A page of more than 8 lines gave an unnumbered Candidate of 8 Blocks with
\* exactly one option-marker line, and two option-marker lines follow each
\* other on the page.
C8_Witness ==
    /\ sg_pc = "done" /\ Len(sg_lines) > OptionCap
    /\ \E n \in CandIdx :
          /\ candidates[n].qnum = <<>> /\ Len(candidates[n].blocks) = OptionCap
          /\ MarkerCount(candidates[n]) = 1
    /\ \E k \in 1..Len(sg_lines) - 1 :
          IsOptionMarker(sg_lines[k].text) /\ IsOptionMarker(sg_lines[k + 1].text)

\* C9: the Blocks of all Candidates, in emission order, come from strictly
\* increasing line positions, and the Blocks of one Candidate from
\* consecutive lines.
C9_ReadingOrder ==
    /\ \A k \in 1..Len(EmittedLines) - 1 : EmittedLines[k] < EmittedLines[k + 1]
    /\ \A n \in CandIdx :
          \A b \in 1..Len(candidates[n].blocks) - 1 :
              candidates[n].blocks[b + 1].line = candidates[n].blocks[b].line + 1

\* A numbered and an unnumbered Candidate of several Blocks each, and a
\* dropped line: some line of the page is in no Candidate.
C9_Witness ==
    /\ sg_pc = "done"
    /\ \E n \in CandIdx : candidates[n].qnum # <<>> /\ Len(candidates[n].blocks) > 1
    /\ \E n \in CandIdx : candidates[n].qnum = <<>> /\ Len(candidates[n].blocks) > 1
    /\ Len(EmittedLines) < Len(sg_lines)

----------------------------------------------------------------------------
(* Properties of the line reconstructor, checked under SpecLines.           *)

TopsOf(words) == [k \in 1..Len(words) |-> words[k].top]

\* |top - sum/n| <= median_h x 0.5, the mean sum/n taken exactly.
NearMean(top, sum, n, mh) == 2 * mh[2] * Abs(n * top - sum) <= mh[1] * n

\* C4 (as claimed): on the geometric path, when all tokens are assigned,
\* every token's top is within median_height x 0.5 of the mean top of its
\* line's tokens.
C4_TokensNearLineMean ==
    (ln_pc = "done" /\ ~has_line_num(page_words)) =>
        \A l \in 1..Len(ln_lines) :
            \A k \in 1..Len(ln_lines[l].words) :
                NearMean(ln_lines[l].words[k].top,
                         SumSeq(TopsOf(ln_lines[l].words)),
                         Len(ln_lines[l].words), MedianH(ln_sorted))

\* The words a group held before its last one was appended.
Before(words) == SubSeq(words, 1, Len(words) - 1)

\* C4 (amended): a token that joins a group is, when it joins, within
\* median_height x 0.5 of the group's running average top: the mean top,
\* truncated to an integer, of the tokens the group held before it.  (The
\* average moves as tokens join, so a token that joined early can end
\* further than that from the final mean.)
C4_TokenNearRunningAverage ==
    ln_last.kind = "joined" =>
        2 * MedianH(ln_sorted)[2]
            * Abs(groups[ln_last.g].words[Len(groups[ln_last.g].words)].top
                  - PyIntDiv(SumSeq(TopsOf(Before(groups[ln_last.g].words))),
                             Len(groups[ln_last.g].words) - 1))
          <= MedianH(ln_sorted)[1]

\* A token joined a group of three, and the group's first token is by now
\* further from the mean than the tolerance.
C4_Witness ==
    /\ ln_last.kind = "joined"
    /\ Len(groups[ln_last.g].words) >= 4
    /\ ~NearMean(groups[ln_last.g].words[1].top,
                 SumSeq(TopsOf(groups[ln_last.g].words)),
                 Len(groups[ln_last.g].words), MedianH(ln_sorted))

ConfsOf(words) == Concat([k \in 1..Len(words) |-> words[k].conf])

\* C10 (as claimed): a line's conf is absent when no token of it has a
\* confidence, and otherwise the mean of the tokens' confidences rounded
\* down (floor), negative confidences included.
C10_ConfIsFloorOfMean ==
    ln_pc = "done" =>
        \A l \in 1..Len(ln_lines) :
            ln_lines[l].conf =
                IF ConfsOf(ln_lines[l].words) = <<>> THEN <<>>
                ELSE <<FloorDiv(SumSeq(ConfsOf(ln_lines[l].words)),
                                Len(ConfsOf(ln_lines[l].words)))>>

----------------------------------------------------------------------------
(* Properties of the script classifier, checked under SpecLang.             *)

\* The reference classifier of the claim: A alphabetic characters, D of them
\* in U+0900..U+097F, ratio D/A (0 when A = 0).
RefAlpha(text) == Cardinality({k \in 1..Len(text) : IsAlpha(text[k])})

RefDev(text) ==
    Cardinality({k \in 1..Len(text) :
                    IsAlpha(text[k]) /\ 2304 <= text[k] /\ text[k] <= 2431})

RefLang(text) ==
    IF RefAlpha(text) = 0 THEN "english"
    ELSE IF 10 * RefDev(text) > 3 * RefAlpha(text) THEN "hindi"
    ELSE IF 20 * RefDev(text) < RefAlpha(text) THEN "english"
    ELSE "mixed"

\* C3 (as claimed): guess_lang returns what the reference classifier returns,
\* and the ratio it classifies never exceeds 1.
C3_AgreesWithReference ==
    lg_out # "" =>
        /\ lg_out = RefLang(lg_text)
        /\ script_ratio(lg_text)[1] <= script_ratio(lg_text)[2]

----------------------------------------------------------------------------
(* Properties of the record normalizer, checked under SpecNorm.             *)

\* C2 (as claimed): for a record that is a mapping normalize_row returns a
\* token whatever its entries hold; only a record that is no mapping raises.
C2_TotalOnMappings ==
    nr_out.exc # "pending" => (nr_out.exc = "" <=> nr_obj.mapping)

----------------------------------------------------------------------------
(* Properties of main, checked under SpecMain.                              *)

\* C5 (as claimed): when a run aborts, the output file is untouched or holds
\* every candidate of the run, never only part of them.
C5_NoPartialOutput ==
    m_pc = "aborted" => (~m_file.touched \/ m_file.content = m_all)

====
